---- MODULE Spec2Model ----
(***************************************************************************)
(* I-V sweep with a Keithley 6220 current source and a Keithley 2182       *)
(* nanovoltmeter: the waveform generator CurrentValues, the procedure IV   *)
(* (startup / execute / shutdown) and the two instrument facades.          *)
(*                                                                         *)
(* Currents are integers in nA (1 uA = NanoPerMicro nA), so the waveform   *)
(* arithmetic of numpy is exact rational arithmetic here; floating-point   *)
(* rounding of np.arange is not modelled.  Times are integers in ms.       *)
(***************************************************************************)
EXTENDS Integers, Sequences, FiniteSets, TLC

VARIABLES
    pc,            \* position of the worker in startup / execute / shutdown
    outcome,       \* how execute() ended: "none", "completed", "cancelled", "failed"
    error,         \* the exception that ended execute(), "" if none
    params,        \* self.current_range (uA), self.current_step (nA), self.delay (ms)
    globals,       \* the module namespace execute() reads current_range/current_step from
    currents,      \* execute(): the waveform (nA)
    i,             \* execute(): enumerate index (0-based)
    voltage,       \* execute(): last measured voltage
    resistance,    \* execute(): last computed resistance
    stopFlag,      \* what should_stop() returns
    log,           \* commands written / queried on the transports and sleeps, in order
    emitted,       \* records handed to emit(), in order
    srcAttrs,      \* plain Python attributes assigned on the Keithley6220 object
    meterChannel,  \* Keithley2182.channel (the mirrored channel)
    shutdownCalls, \* number of IV.shutdown() calls
    stopMark,      \* observer: the counters at the moment the stop flag became set
    lastOp,        \* a facade exercised alone: the last operation called
    facade,        \* a facade exercised alone: the operation's argument and result
    cvPc,          \* CurrentValues exercised alone: "call" or "returned"
    cvArgs,        \* CurrentValues exercised alone: (rangeA, stepA)
    cvResult       \* CurrentValues exercised alone: the returned sequence

vars == <<pc, outcome, error, params, globals, currents, i, voltage, resistance,
          stopFlag, log, emitted, srcAttrs, meterChannel, shutdownCalls,
          stopMark, lastOp, facade, cvPc, cvArgs, cvResult>>

sweepVars == <<pc, outcome, error, params, globals, currents, i, voltage,
               resistance, stopFlag, emitted, srcAttrs, meterChannel,
               shutdownCalls, stopMark>>

cvVars == <<cvPc, cvArgs, cvResult>>

(***************************************************************************)
(* Bounds of the model.                                                    *)
(***************************************************************************)
MaxRangeUA == 2        \* current_range values tried: 1..MaxRangeUA (uA)
MaxStepMult == 4       \* current_step values tried: 500 nA * (1..MaxStepMult)
MaxCVArg == 12         \* CurrentValues alone: rangeA, stepA in 1..MaxCVArg
MaxOps == 4            \* Keithley6220 alone: number of operations called

(***************************************************************************)
(* Program constants.                                                      *)
(***************************************************************************)
NanoPerMicro == 1000   \* current_step * 1e-3: nA -> uA
SettleMs == 2000       \* sleep(2) at the end of startup()
ComplianceV == 100     \* self.source.complinance_voltage = 100

(***************************************************************************)
(* numpy helpers used by CurrentValues.                                    *)
(***************************************************************************)
\* ceil(a / b) for b > 0
CeilDiv(a, b) == -((-a) \div b)

\* an arange that counts floor(|stop - start| / |step|) + 1 values, so that it
\* includes stop when the step divides the interval
ArangeInclusive(start, stop, step) ==
    LET n == IF step > 0 THEN ((stop - start) \div step) + 1
                         ELSE ((start - stop) \div (-step)) + 1
        len == IF n > 0 THEN n ELSE 0
    IN  [k \in 1..len |-> start + (k - 1) * step]

\* np.arange(start, stop, step) for step # 0: ceil((stop - start) / step)
\* values start, start + step, ...; empty when that count is not positive.
Arange(start, stop, step) ==
    LET n == IF step > 0 THEN CeilDiv(stop - start, step)
                         ELSE CeilDiv(start - stop, -step)
        len == IF n > 0 THEN n ELSE 0
    IN  [k \in 1..len |-> start + (k - 1) * step]

\* CurrentValues without the trailing np.append(CurrentValues, 0)
CurrentValuesNoAppend(rangeA, stepA) ==
    Arange(0, rangeA, stepA) \o Arange(rangeA, -rangeA, -stepA)
        \o Arange(-rangeA, 0, stepA)

\* CurrentValues(rangeA, stepA): hstack of the three aranges, then append 0
CurrentValues(rangeA, stepA) ==
    Append(Arange(0, rangeA, stepA) \o Arange(rangeA, -rangeA, -stepA)
               \o Arange(-rangeA, 0, stepA), 0)

(***************************************************************************)
(* The transports: what is written to / queried from an instrument and the *)
(* sleeps of the host, as they happen.                                     *)
(***************************************************************************)
Write(dev, cmd, arg) == [dev |-> dev, op |-> "write", cmd |-> cmd, arg |-> arg]

Query(dev, cmd) == [dev |-> dev, op |-> "query", cmd |-> cmd, arg |-> 0]

Sleep(ms) == [dev |-> "host", op |-> "sleep", cmd |-> "", arg |-> ms]

(***************************************************************************)
(* Keithley6220: the current source facade.                                *)
(***************************************************************************)
CurrentRangeMin == -105   \* values=[-105e-3, 105e-3], in mA
CurrentRangeMax == 105

\* validators.truncated_range(value, values): the value clamped into
\* [values[0], values[1]]
truncated_range(value, lo, hi) ==
    IF value < lo THEN lo ELSE IF value > hi THEN hi ELSE value

\* A range setter that leaves the auto-range mode alone
current_range_set_no_auto == "CURRent:RANGe %g"

\* current_range = Instrument.control(get, set, ...): the set command
current_range_set == "CURRent:RANGe:AUTO 0;CURRent:RANGe %g"

\* current = Instrument.setting(...): the set-point command
current_set == "CURRent %g"

\* Instrument.control's setter: validate, format the set command, write it
ControlSet(dev, set_command, value, lo, hi) ==
    Write(dev, set_command, truncated_range(value, lo, hi))

enable_source == <<Write("source", "OUTPUT ON", 0)>>

disable_source == <<Write("source", "OUTPUT OFF", 0)>>

enable_auto_range == <<Write("source", "CURRent:RANGe:AUTO 1", 0)>>

disable_auto_range == <<Write("source", "CURRent:RANGe:AUTO 0", 0)>>

source_reset == <<Write("source", "*RST", 0), Write("source", "*CLS", 0)>>

\* Keithley6220.shutdown(): self.write("SourceMeter")
source_shutdown == <<Write("source", "SourceMeter", 0)>>

\* The instrument's auto-range mode after the commands in cmds (off at power-up):
\* each command that carries CURRent:RANGe:AUTO b switches it to b.
\* What the commands in cmds left a setting of the source at: the value of the
\* last command cmd written since the last *RST, if there is one.
RECURSIVE SourceSetting(_, _)
SourceSetting(cmds, cmd) ==
    IF cmds = <<>> THEN [set |-> FALSE, val |-> 0]
    ELSE LET last == cmds[Len(cmds)]
         IN  IF last.dev = "source" /\ last.op = "write" /\ last.cmd = cmd
               THEN [set |-> TRUE, val |-> last.arg]
             ELSE IF last.dev = "source" /\ last.op = "write" /\ last.cmd = "*RST"
               THEN [set |-> FALSE, val |-> 0]
             ELSE SourceSetting(SubSeq(cmds, 1, Len(cmds) - 1), cmd)

RECURSIVE AutoRangeOn(_)
AutoRangeOn(cmds) ==
    IF cmds = <<>> THEN FALSE
    ELSE LET last == cmds[Len(cmds)]
         IN  IF last.dev = "source" /\ last.op = "write"
                 /\ last.cmd = "CURRent:RANGe:AUTO 1" THEN TRUE
             ELSE IF last.dev = "source" /\ last.op = "write"
                 /\ last.cmd \in {"CURRent:RANGe:AUTO 0",
                                  "CURRent:RANGe:AUTO 0;CURRent:RANGe %g"} THEN FALSE
             ELSE AutoRangeOn(SubSeq(cmds, 1, Len(cmds) - 1))

(***************************************************************************)
(* Keithley2182: the nanovoltmeter facade.                                 *)
(***************************************************************************)
\* Keithley2182.setup(): the commands written, in order
setup_commands ==
    <<"SENSe:VOLTage", "SENSe:CHANnel 2", "SENSe:VOLTage:NPLCycles 5",
      "SYSTem:FAZero OFF", "SYSTem:AZERo OFF", "SYSTem:LSYNc ON",
      "SENSe:VOLTage:CHANnel2:RANGe:AUTO ON",
      "SENSe:VOLTage:CHANnel2:LPASs OFF", "INITiate", "INITiate:CONTinuous OFF">>

meter_setup == [k \in 1..Len(setup_commands) |-> Write("meter", setup_commands[k], 0)]

\* str.split('E'): the pieces of s between the 'E' characters
RECURSIVE SplitE(_)
SplitE(s) ==
    IF \A k \in 1..Len(s) : s[k] # "E" THEN <<s>>
    ELSE LET p == CHOOSE k \in 1..Len(s) :
                      s[k] = "E" /\ \A j \in 1..(k - 1) : s[j] # "E"
         IN  <<SubSeq(s, 1, p - 1)>> \o SplitE(SubSeq(s, p + 1, Len(s)))

Digits == {"0", "1", "2", "3", "4", "5", "6", "7", "8", "9"}

DigitVal(c) ==
    CASE c = "0" -> 0 [] c = "1" -> 1 [] c = "2" -> 2 [] c = "3" -> 3
      [] c = "4" -> 4 [] c = "5" -> 5 [] c = "6" -> 6 [] c = "7" -> 7
      [] c = "8" -> 8 [] c = "9" -> 9

\* float(t) / int(t) on an unsigned digit string: parses iff non-empty digits
IsNumber(t) == Len(t) > 0 /\ \A k \in 1..Len(t) : t[k] \in Digits

RECURSIVE NumberOf(_)
NumberOf(t) ==
    IF t = <<>> THEN 0
    ELSE 10 * NumberOf(SubSeq(t, 1, Len(t) - 1)) + DigitVal(t[Len(t)])

RECURSIVE Pow10(_)
Pow10(n) == IF n = 0 THEN 1 ELSE 10 * Pow10(n - 1)

\* One round of measure_voltage: tmp = reply.split('E');
\* float(tmp[0]) * 10**int(tmp[1]).  tmp[1] of a reply without 'E' is an
\* IndexError, a piece that is no number a ValueError.
ParseReply(reply) ==
    LET tmp == SplitE(reply)
    IN  IF Len(tmp) < 2 THEN [ok |-> FALSE, error |-> "IndexError", value |-> 0]
        ELSE IF ~IsNumber(tmp[1]) \/ ~IsNumber(tmp[2])
             THEN [ok |-> FALSE, error |-> "ValueError", value |-> 0]
        ELSE [ok |-> TRUE, error |-> "",
              value |-> NumberOf(tmp[1]) * Pow10(NumberOf(tmp[2]))]

\* measure_voltage(iterations = Len(replies)): the sum of the parsed rounds,
\* to be divided by iterations; the first round that fails to parse raises.
RECURSIVE measure_voltage(_)
measure_voltage(replies) ==
    IF replies = <<>> THEN [ok |-> TRUE, error |-> "", value |-> 0]
    ELSE LET head == ParseReply(replies[1])
             rest == measure_voltage(Tail(replies))
         IN  IF ~head.ok THEN head
             ELSE IF ~rest.ok THEN rest
             ELSE [ok |-> TRUE, error |-> "", value |-> head.value + rest.value]

\* What the meter may answer to READ?
Replies == {<<"0", "E", "0">>, <<"2", "E", "1">>, <<"5">>}

(***************************************************************************)
(* IV: the sweep procedure.                                                *)
(***************************************************************************)
StepChoices == {500 * m : m \in 1..MaxStepMult}

DelayMs == 10          \* delay = FloatParameter('Delay Time', units='ms', default=10)

\* The steps tried, those no sweep can use (negative, zero) included
AllSteps == {-500, 0} \cup StepChoices

\* The procedure parameters (self.current_range in uA, self.current_step in nA);
\* a FloatParameter without minimum accepts any number
ParamChoices ==
    [current_range : 1..MaxRangeUA, current_step : AllSteps, delay : {DelayMs}]

\* The module namespace: current_range / current_step are free names of
\* execute(); they are bound only if the enclosing module (notebook) binds them.
GlobalChoices ==
    {[defined |-> FALSE, current_range |-> 0, current_step |-> 0]}
    \cup [defined : {TRUE}, current_range : 1..MaxRangeUA, current_step : AllSteps]

\* The statements of the loop body of execute(), in program order
LoopBodyMeasureFirst ==
    <<"measure", "set", "sleep", "divide", "emit_results", "emit_progress",
      "should_stop">>

\* a loop body that polls should_stop() before commanding the point
LoopBodyStopFirst ==
    <<"should_stop", "set", "sleep", "measure", "divide", "emit_results",
      "emit_progress">>

LoopBody ==
    <<"set", "sleep", "measure", "divide", "emit_results", "emit_progress",
      "should_stop">>

PosOf(stmt) == CHOOSE k \in 1..Len(LoopBody) : LoopBody[k] = stmt

\* resistance = voltage / current with a division that raises on zero
ResistanceRaising(v, c) ==
    IF c = 0 THEN [kind |-> "raise", num |-> 0, den |-> 0]
    ELSE [kind |-> "finite", num |-> v, den |-> c]

\* resistance = voltage / current, current a numpy.float64: the division is
\* numpy's, which returns nan for 0/0 and an infinity for v/0 (with a
\* RuntimeWarning) instead of raising.
Resistance(v, c) ==
    IF c = 0 THEN [kind |-> IF v = 0 THEN "nan" ELSE "inf", num |-> v, den |-> 0]
    ELSE [kind |-> "finite", num |-> v, den |-> c]

\* 100. * i / steps, as the fraction num / den
Progress(idx, steps) == [num |-> 100 * idx, den |-> steps]

\* a loop that ignores should_stop()
NeverBreak(flag) == FALSE

\* if self.should_stop(): break
ShouldBreak(flag) == flag

ResultsRecord(idx, current) ==
    [kind |-> "results", index |-> idx, current |-> current, num |-> 0, den |-> 0]

ProgressRecord(idx, p) ==
    [kind |-> "progress", index |-> idx, current |-> 0, num |-> p.num, den |-> p.den]

\* Counters over the log and the emitted records
IsSetPoint(e) == e.dev = "source" /\ e.op = "write" /\ e.cmd = current_set

IsMeasure(e) == e.dev = "meter" /\ e.op = "query" /\ e.cmd = "READ?"

NumSetPoints == Cardinality({k \in 1..Len(log) : IsSetPoint(log[k])})

NumMeasures == Cardinality({k \in 1..Len(log) : IsMeasure(log[k])})

NumResults == Cardinality({k \in 1..Len(emitted) : emitted[k].kind = "results"})

NoMark == [set |-> FALSE, pc |-> "", nset |-> 0, nmeas |-> 0, nresults |-> 0,
           checked |-> 0, reads |-> 0]

\* Values of the variables a specification does not exercise
SweepIdle ==
    /\ pc = "unused" /\ outcome = "none" /\ error = ""
    /\ params = [current_range |-> 1, current_step |-> 500, delay |-> DelayMs]
    /\ globals = [defined |-> FALSE, current_range |-> 0, current_step |-> 0]
    /\ currents = <<>> /\ i = 0 /\ voltage = 0
    /\ resistance = [kind |-> "none", num |-> 0, den |-> 0]
    /\ stopFlag = FALSE /\ emitted = <<>>
    /\ srcAttrs = [source_current_range |-> -1, complinance_voltage |-> -1]
    /\ meterChannel = 0 /\ shutdownCalls = 0 /\ stopMark = NoMark

NoFacade == [arg |-> 0, raised |-> "", result |-> 0]

CvIdle == cvPc = "unused" /\ cvArgs = <<0, 0>> /\ cvResult = <<>>

Init ==
    /\ pc = "idle" /\ outcome = "none" /\ error = ""
    /\ params \in ParamChoices
    /\ globals \in GlobalChoices
    /\ globals.defined => globals.current_step = params.current_step
    /\ currents = <<>> /\ i = 0 /\ voltage = 0
    /\ resistance = [kind |-> "none", num |-> 0, den |-> 0]
    /\ stopFlag = FALSE /\ log = <<>> /\ emitted = <<>>
    /\ srcAttrs = [source_current_range |-> -1, complinance_voltage |-> -1]
    /\ meterChannel = 0 /\ shutdownCalls = 0 /\ stopMark = NoMark
    /\ lastOp = "none" /\ facade = NoFacade
    /\ CvIdle

\* IV.startup(): Keithley2182(...) sets channel = 1, setup() writes its
\* commands; Keithley6220(...), enable_auto_range(); the two assignments name
\* attributes that are no property of Keithley6220 (source_current_range,
\* complinance_voltage), so they only store a value on the object and write
\* nothing; reset(), enable_source(), sleep(2).
Startup ==
    /\ pc = "idle"
    /\ meterChannel' = 1
    /\ srcAttrs' = [source_current_range |-> NanoPerMicro * params.current_range,
                    complinance_voltage |-> ComplianceV]
    /\ log' = log \o meter_setup \o enable_auto_range \o source_reset
                  \o enable_source \o <<Sleep(SettleMs)>>
    /\ pc' = "execute"
    /\ UNCHANGED <<outcome, error, params, globals, currents, i, voltage,
                   resistance, stopFlag, emitted, shutdownCalls, stopMark,
                   lastOp, facade,
                   cvVars>>

\* execute() raises exc: the worker goes on to shutdown()
Raise(exc) ==
    /\ error' = exc
    /\ outcome' = "failed"
    /\ pc' = "finished"

\* np.arange raises on a zero step (the division that counts its values)
CurrentValuesRaises(rangeA, stepA) == stepA = 0

\* execute(), lines 42-46: the waveform from the module-level names
\* current_range and current_step * 1e-3 (uA), scaled by 1e-6 to A.
ExecuteBegin ==
    /\ pc = "execute"
    /\ IF ~globals.defined
         THEN Raise("NameError") /\ UNCHANGED <<currents, i>>
         ELSE IF CurrentValuesRaises(NanoPerMicro * globals.current_range,
                                     globals.current_step)
         THEN Raise("ZeroDivisionError in np.arange") /\ UNCHANGED <<currents, i>>
         ELSE /\ currents' = CurrentValues(NanoPerMicro * globals.current_range,
                                           globals.current_step)
              /\ i' = 0
              /\ pc' = LoopBody[1]
              /\ UNCHANGED <<outcome, error>>
    /\ UNCHANGED <<params, globals, voltage, resistance, stopFlag, log, emitted,
                   srcAttrs, meterChannel, shutdownCalls, stopMark, lastOp, facade,
                   cvVars>>

\* Control after the statement stmt of the loop body: the next statement, or
\* the next waveform point, or the end of the for loop.
Advance(stmt) ==
    IF PosOf(stmt) < Len(LoopBody)
      THEN pc' = LoopBody[PosOf(stmt) + 1] /\ UNCHANGED <<i, outcome, error>>
    ELSE IF i + 1 < Len(currents)
      THEN pc' = LoopBody[1] /\ i' = i + 1 /\ UNCHANGED <<outcome, error>>
    ELSE pc' = "finished" /\ outcome' = "completed" /\ UNCHANGED <<i, error>>

\* self.source.current = current
SetPoint ==
    /\ pc = "set"
    /\ log' = Append(log, Write("source", current_set, currents[i + 1]))
    /\ Advance("set")
    /\ UNCHANGED <<params, globals, currents, voltage, resistance, stopFlag,
                   emitted, srcAttrs, meterChannel, shutdownCalls, stopMark,
                   lastOp, facade,
                   cvVars>>

\* sleep(self.delay * 1e-3)
Delay ==
    /\ pc = "sleep"
    /\ log' = Append(log, Sleep(params.delay))
    /\ Advance("sleep")
    /\ UNCHANGED <<params, globals, currents, voltage, resistance, stopFlag,
                   emitted, srcAttrs, meterChannel, shutdownCalls, stopMark,
                   lastOp, facade,
                   cvVars>>

\* voltage = self.meter.measure_voltage()
Measure ==
    /\ pc = "measure"
    /\ \E reply \in Replies :
         LET r == measure_voltage(<<reply>>)
         IN  /\ log' = log \o <<Write("meter", "INITIATE:CONT OFF", 0),
                                Query("meter", "READ?")>>
             /\ IF r.ok
                  THEN voltage' = r.value /\ Advance("measure")
                  ELSE Raise(r.error) /\ UNCHANGED <<voltage, i>>
    /\ UNCHANGED <<params, globals, currents, resistance, stopFlag, emitted,
                   srcAttrs, meterChannel, shutdownCalls, stopMark, lastOp, facade,
                   cvVars>>

\* resistance = voltage / current
Divide ==
    /\ pc = "divide"
    /\ LET r == Resistance(voltage, currents[i + 1])
       IN  IF r.kind = "raise"
             THEN Raise("ZeroDivisionError") /\ UNCHANGED <<resistance, i>>
             ELSE resistance' = r /\ Advance("divide")
    /\ UNCHANGED <<params, globals, currents, voltage, stopFlag, log, emitted,
                   srcAttrs, meterChannel, shutdownCalls, stopMark, lastOp, facade,
                   cvVars>>

\* self.emit('results', data)
EmitResults ==
    /\ pc = "emit_results"
    /\ emitted' = Append(emitted, ResultsRecord(i, currents[i + 1]))
    /\ Advance("emit_results")
    /\ UNCHANGED <<params, globals, currents, voltage, resistance, stopFlag, log,
                   srcAttrs, meterChannel, shutdownCalls, stopMark, lastOp, facade,
                   cvVars>>

\* self.emit('progress', 100. * i / steps)
EmitProgress ==
    /\ pc = "emit_progress"
    /\ emitted' = Append(emitted, ProgressRecord(i, Progress(i, Len(currents))))
    /\ Advance("emit_progress")
    /\ UNCHANGED <<params, globals, currents, voltage, resistance, stopFlag, log,
                   srcAttrs, meterChannel, shutdownCalls, stopMark, lastOp, facade,
                   cvVars>>

\* if self.should_stop(): break
ShouldStop ==
    /\ pc = "should_stop"
    /\ IF ShouldBreak(stopFlag)
         THEN pc' = "finished" /\ outcome' = "cancelled" /\ UNCHANGED <<i, error>>
         ELSE Advance("should_stop")
    /\ stopMark' = IF stopMark.set
                     THEN [stopMark EXCEPT !.checked = @ + 1, !.reads = @ + 1]
                     ELSE [stopMark EXCEPT !.reads = @ + 1]
    /\ UNCHANGED <<params, globals, currents, voltage, resistance, stopFlag, log,
                   emitted, srcAttrs, meterChannel, shutdownCalls, lastOp, facade,
                   cvVars>>

\* The worker calls IV.shutdown() once execute() has ended, however it ended:
\* self.source.shutdown()
Shutdown ==
    /\ pc = "finished"
    /\ log' = log \o source_shutdown
    /\ shutdownCalls' = shutdownCalls + 1
    /\ pc' = "done"
    /\ UNCHANGED <<outcome, error, params, globals, currents, i, voltage,
                   resistance, stopFlag, emitted, srcAttrs, meterChannel,
                   stopMark, lastOp, facade,
                   cvVars>>

\* The stop signal becomes set (by the worker's owner) while the procedure runs
SetStop ==
    /\ ~stopFlag
    /\ pc \notin {"finished", "done"}
    /\ stopFlag' = TRUE
    /\ stopMark' = [set |-> TRUE, pc |-> pc, nset |-> NumSetPoints,
                    nmeas |-> NumMeasures, nresults |-> NumResults, checked |-> 0,
                    reads |-> stopMark.reads]
    /\ UNCHANGED <<pc, outcome, error, params, globals, currents, i, voltage,
                   resistance, log, emitted, srcAttrs, meterChannel,
                   shutdownCalls, lastOp, facade,
                   cvVars>>

Next ==
    \/ Startup
    \/ ExecuteBegin
    \/ SetPoint
    \/ Delay
    \/ Measure
    \/ Divide
    \/ EmitResults
    \/ EmitProgress
    \/ ShouldStop
    \/ Shutdown
    \/ SetStop

Spec == Init /\ [][Next]_vars

(***************************************************************************)
(* CurrentValues exercised alone, on every (rangeA, stepA) of the bounds.  *)
(***************************************************************************)
InitCV ==
    /\ SweepIdle
    /\ log = <<>> /\ lastOp = "none" /\ facade = NoFacade
    /\ cvPc = "call"
    /\ cvArgs \in (1..MaxCVArg) \X (1..MaxCVArg)
    /\ cvResult = <<>>

CallCurrentValues ==
    /\ cvPc = "call"
    /\ cvResult' = CurrentValues(cvArgs[1], cvArgs[2])
    /\ cvPc' = "returned"
    /\ UNCHANGED <<sweepVars, log, lastOp, facade, cvArgs>>

NextCV == CallCurrentValues

SpecCV == InitCV /\ [][NextCV]_vars

(***************************************************************************)
(* The Keithley6220 facade exercised alone: any sequence of                *)
(* enable_auto_range(), disable_auto_range() and current_range = v.        *)
(***************************************************************************)
RangeInputs ==
    {CurrentRangeMin - 1, CurrentRangeMin, 0, CurrentRangeMax, CurrentRangeMax + 1}

InitSrc ==
    /\ SweepIdle
    /\ CvIdle
    /\ log = <<>> /\ lastOp = "none" /\ facade = NoFacade

SrcEnableAutoRange ==
    /\ Len(log) < MaxOps
    /\ log' = log \o enable_auto_range
    /\ lastOp' = "enable_auto_range"
    /\ UNCHANGED <<sweepVars, facade, cvVars>>

SrcDisableAutoRange ==
    /\ Len(log) < MaxOps
    /\ log' = log \o disable_auto_range
    /\ lastOp' = "disable_auto_range"
    /\ UNCHANGED <<sweepVars, facade, cvVars>>

SrcSetCurrentRange ==
    /\ Len(log) < MaxOps
    /\ \E v \in RangeInputs :
         log' = Append(log, ControlSet("source", current_range_set, v,
                                       CurrentRangeMin, CurrentRangeMax))
    /\ lastOp' = "current_range"
    /\ UNCHANGED <<sweepVars, facade, cvVars>>

NextSrc ==
    \/ SrcEnableAutoRange
    \/ SrcDisableAutoRange
    \/ SrcSetCurrentRange

SpecSrc == InitSrc /\ [][NextSrc]_vars

(***************************************************************************)
(* The Keithley2182 facade exercised alone: any sequence of               *)
(* set_channel(n), setup() and reset().                                    *)
(***************************************************************************)
MaxMeterOps == 3       \* number of operations called

ChannelInputs == -1..3

\* Keithley2182.set_channel(channel_number) called with self.channel = channel:
\* the new self.channel, the commands written, the exception raised ("" if
\* none) and whether the warning was printed.
set_channel(channel, channel_number) ==
    IF channel_number = 1
      THEN [channel |-> 1, writes |-> <<Write("meter", ":SENSE:CHANNEL 1", 0)>>,
            raised |-> "", printed |-> FALSE]
    ELSE IF channel_number = 2
      THEN [channel |-> 2, writes |-> <<Write("meter", ":SENSE:CHANNEL 2", 0)>>,
            raised |-> "", printed |-> FALSE]
    ELSE IF channel_number = 0
      THEN [channel |-> 0, writes |-> <<Write("meter", ":SENSE:CHANNEL 0", 0)>>,
            raised |-> "", printed |-> FALSE]
    ELSE [channel |-> channel, writes |-> <<>>, raised |-> "", printed |-> TRUE]

\* Keithley2182.reset()
meter_reset == <<Write("meter", "*RST", 0), Write("meter", "*CLS", 0)>>

\* The channel selected on the instrument after the commands in cmds: the
\* channel of the last channel-select command, channel 1 at power-up and
\* after *RST.
RECURSIVE InstrumentChannel(_)
InstrumentChannel(cmds) ==
    IF cmds = <<>> THEN 1
    ELSE LET last == cmds[Len(cmds)]
         IN  IF last.dev # "meter" \/ last.op # "write"
               THEN InstrumentChannel(SubSeq(cmds, 1, Len(cmds) - 1))
             ELSE IF last.cmd = ":SENSE:CHANNEL 0" THEN 0
             ELSE IF last.cmd = ":SENSE:CHANNEL 1" THEN 1
             ELSE IF last.cmd \in {":SENSE:CHANNEL 2", "SENSe:CHANnel 2"} THEN 2
             ELSE IF last.cmd = "*RST" THEN 1
             ELSE InstrumentChannel(SubSeq(cmds, 1, Len(cmds) - 1))

\* Keithley2182.__init__: self.channel = 1
InitMeter ==
    /\ pc = "unused" /\ outcome = "none" /\ error = ""
    /\ params = [current_range |-> 1, current_step |-> 500, delay |-> DelayMs]
    /\ globals = [defined |-> FALSE, current_range |-> 0, current_step |-> 0]
    /\ currents = <<>> /\ i = 0 /\ voltage = 0
    /\ resistance = [kind |-> "none", num |-> 0, den |-> 0]
    /\ stopFlag = FALSE /\ emitted = <<>>
    /\ srcAttrs = [source_current_range |-> -1, complinance_voltage |-> -1]
    /\ shutdownCalls = 0 /\ stopMark = NoMark
    /\ CvIdle
    /\ meterChannel = 1
    /\ log = <<>> /\ lastOp = "none"
    /\ facade = [arg |-> 0, raised |-> "", ops |-> 0, channel0 |-> 1, len0 |-> 0]

meterUnchanged ==
    <<pc, outcome, error, params, globals, currents, i, voltage, resistance,
      stopFlag, emitted, srcAttrs, shutdownCalls, stopMark, cvVars>>

MeterSetChannel ==
    /\ facade.ops < MaxMeterOps
    /\ \E n \in ChannelInputs :
         LET r == set_channel(meterChannel, n)
         IN  /\ meterChannel' = r.channel
             /\ log' = log \o r.writes
             /\ facade' = [arg |-> n, raised |-> r.raised, ops |-> facade.ops + 1,
                           channel0 |-> meterChannel, len0 |-> Len(log)]
    /\ lastOp' = "set_channel"
    /\ UNCHANGED meterUnchanged

MeterSetup ==
    /\ facade.ops < MaxMeterOps
    /\ log' = log \o meter_setup
    /\ facade' = [arg |-> 0, raised |-> "", ops |-> facade.ops + 1,
                  channel0 |-> meterChannel, len0 |-> Len(log)]
    /\ lastOp' = "setup"
    /\ UNCHANGED <<meterChannel, meterUnchanged>>

MeterReset ==
    /\ facade.ops < MaxMeterOps
    /\ log' = log \o meter_reset
    /\ facade' = [arg |-> 0, raised |-> "", ops |-> facade.ops + 1,
                  channel0 |-> meterChannel, len0 |-> Len(log)]
    /\ lastOp' = "reset"
    /\ UNCHANGED <<meterChannel, meterUnchanged>>

NextMeter ==
    \/ MeterSetChannel
    \/ MeterSetup
    \/ MeterReset

SpecMeter == InitMeter /\ [][NextMeter]_vars

(***************************************************************************)
(* Keithley2182.measure_voltage(iterations) exercised alone.               *)
(***************************************************************************)
MaxIter == 3           \* iterations tried: 1..MaxIter

\* What the meter may answer to READ?: well-formed replies, a reply without
\* exponent marker, one with two markers, one with an empty mantissa
MeterReplies ==
    Replies \cup {<<"2", "E", "1", "E", "0">>, <<"E", "1">>}

RECURSIVE ReplySeqs(_)
ReplySeqs(n) ==
    IF n = 0 THEN {<<>>}
    ELSE {Append(q, r) : q \in ReplySeqs(n - 1), r \in MeterReplies}

\* The number of READ? queries measure_voltage issues: up to and including
\* the first round that fails to parse
RECURSIVE RoundsRun(_)
RoundsRun(replies) ==
    IF replies = <<>> THEN 0
    ELSE IF ~ParseReply(replies[1]).ok THEN 1
    ELSE 1 + RoundsRun(Tail(replies))

InitMeasure ==
    /\ SweepIdle
    /\ CvIdle
    /\ log = <<>> /\ lastOp = "none"
    /\ facade = [arg |-> <<>>, raised |-> "", returned |-> FALSE, result |-> 0]

MeterMeasureVoltage ==
    /\ lastOp = "none"
    /\ \E n \in 1..MaxIter : \E replies \in ReplySeqs(n) :
         LET r == measure_voltage(replies)
         IN  /\ log' = log \o <<Write("meter", "INITIATE:CONT OFF", 0)>>
                           \o [k \in 1..RoundsRun(replies) |-> Query("meter", "READ?")]
             /\ facade' = [arg |-> replies, raised |-> r.error,
                           returned |-> r.ok, result |-> r.value]
    /\ lastOp' = "measure_voltage"
    /\ UNCHANGED <<sweepVars, cvVars>>

NextMeasure == MeterMeasureVoltage

SpecMeasure == InitMeasure /\ [][NextMeasure]_vars

(***************************************************************************)
(* Keithley6220.check_errors() exercised alone, with a wall clock (s).     *)
(***************************************************************************)
TimeoutS == 10         \* if (time.time() - t) > 10
MaxClock == 30         \* the clock stops the model at MaxClock seconds
MaxPollS == 11         \* a poll of the error queue takes 1 or MaxPollS seconds

\* The error codes the instrument may report in answer to :system:error?
ErrorCodes == {0, 113}

PollTimes == {1, MaxPollS}

InitErr ==
    /\ SweepIdle
    /\ CvIdle
    /\ log = <<>> /\ lastOp = "none"
    /\ facade = [pc |-> "call", now |-> 0, start |-> 0, t |-> 0, code |-> 0,
                 infos |-> 0, warned |-> FALSE, raised |-> ""]

\* code, message = self.error  (before the loop)
CheckErrorsBegin ==
    /\ facade.pc = "call"
    /\ \E c \in ErrorCodes : \E dt \in PollTimes :
         /\ facade.now + dt <= MaxClock
         /\ facade' = [facade EXCEPT !.pc = "test", !.code = c, !.now = @ + dt]
    /\ log' = Append(log, Query("source", ":system:error?"))
    /\ lastOp' = "check_errors"
    /\ UNCHANGED <<sweepVars, cvVars>>

\* while code != 0:  t = time.time(); log.info(...)
CheckErrorsTest ==
    /\ facade.pc = "test"
    /\ facade' = IF facade.code # 0
                   THEN [facade EXCEPT !.pc = "body", !.t = facade.now,
                                       !.infos = @ + 1]
                   ELSE [facade EXCEPT !.pc = "returned"]
    /\ UNCHANGED <<sweepVars, cvVars, log, lastOp>>

\* code, message = self.error; if (time.time() - t) > 10: log.warning(...)
\* and back to the loop test: the if has no break.
CheckErrorsPoll ==
    /\ facade.pc = "body"
    /\ \E c \in ErrorCodes : \E dt \in PollTimes :
         /\ facade.now + dt <= MaxClock
         /\ facade' = [facade EXCEPT !.pc = "test", !.code = c, !.now = @ + dt,
                          !.warned = @ \/ (facade.now + dt - facade.t > TimeoutS)]
    /\ log' = Append(log, Query("source", ":system:error?"))
    /\ UNCHANGED <<sweepVars, cvVars, lastOp>>

NextErr ==
    \/ CheckErrorsBegin
    \/ CheckErrorsTest
    \/ CheckErrorsPoll

SpecErr == InitErr /\ [][NextErr]_vars

(***************************************************************************)
(* Keithley6220.ramp_to_current exercised alone, after assignments to the  *)
(* current property and to the plain attribute source_current (the class   *)
(* docstring's `keithley.source_current = 0`).                             *)
(***************************************************************************)
MaxRampOps == 3        \* number of operations called
MaxRampSteps == 3      \* steps tried: 1..MaxRampSteps
RampPauseMs == 20      \* pause=20e-3

RampValues == {-12, 0, 12}

\* np.linspace(a, b, n): n evenly spaced values from a to b (exact for the
\* values tried, whose differences are multiples of n - 1)
Linspace(a, b, n) ==
    IF n = 1 THEN <<a>>
    ELSE [k \in 1..n |-> a + ((k - 1) * (b - a)) \div (n - 1)]

\* The writes and sleeps of the for loop of ramp_to_current
RECURSIVE RampWrites(_)
RampWrites(values) ==
    IF values = <<>> THEN <<>>
    ELSE <<Write("source", current_set, values[1]), Sleep(RampPauseMs)>>
             \o RampWrites(Tail(values))

InitRamp ==
    /\ SweepIdle
    /\ CvIdle
    /\ log = <<>> /\ lastOp = "none"
    /\ facade = [ops |-> 0, attr |-> [has |-> FALSE, val |-> 0],
                 last0 |-> [has |-> FALSE, val |-> 0], len0 |-> 0,
                 target |-> 0, steps |-> 0, raised |-> ""]

\* The last current commanded through the current property
RECURSIVE LastCommanded(_)
LastCommanded(cmds) ==
    IF cmds = <<>> THEN [has |-> FALSE, val |-> 0]
    ELSE IF cmds[Len(cmds)].op = "write" /\ cmds[Len(cmds)].cmd = current_set
      THEN [has |-> TRUE, val |-> cmds[Len(cmds)].arg]
    ELSE LastCommanded(SubSeq(cmds, 1, Len(cmds) - 1))

\* keithley.source_current = v: no property of that name, a plain attribute
RampAssignSourceCurrent ==
    /\ facade.ops < MaxRampOps
    /\ \E v \in RampValues :
         facade' = [facade EXCEPT !.ops = @ + 1, !.attr = [has |-> TRUE, val |-> v],
                                  !.raised = ""]
    /\ lastOp' = "source_current"
    /\ UNCHANGED <<sweepVars, cvVars, log>>

\* keithley.current = v
RampSetCurrent ==
    /\ facade.ops < MaxRampOps
    /\ \E v \in RampValues : log' = Append(log, Write("source", current_set, v))
    /\ facade' = [facade EXCEPT !.ops = @ + 1, !.raised = ""]
    /\ lastOp' = "current"
    /\ UNCHANGED <<sweepVars, cvVars>>

\* ramp_to_current(target, steps): np.linspace(self.source_current, ...) reads
\* the attribute source_current, an AttributeError when it was never assigned
RampToCurrent ==
    /\ facade.ops < MaxRampOps
    /\ \E target \in RampValues : \E steps \in 1..MaxRampSteps :
         /\ facade' = [facade EXCEPT !.ops = @ + 1, !.len0 = Len(log),
                          !.last0 = LastCommanded(log),
                          !.target = target, !.steps = steps,
                          !.raised = IF facade.attr.has THEN "" ELSE "AttributeError"]
         /\ log' = IF facade.attr.has
                     THEN log \o RampWrites(Linspace(facade.attr.val, target, steps))
                     ELSE log
    /\ lastOp' = "ramp_to_current"
    /\ UNCHANGED <<sweepVars, cvVars>>

NextRamp ==
    \/ RampAssignSourceCurrent
    \/ RampSetCurrent
    \/ RampToCurrent

SpecRamp == InitRamp /\ [][NextRamp]_vars

(***************************************************************************)
(* The range-validated properties of the Keithley6220 exercised alone.     *)
(* Units: current_range mA, compliance_voltage 0.1 V, trigger_delay 0.1 ms.*)
(***************************************************************************)
MaxPropOps == 2        \* number of assignments

\* the property table with trigger_count declared without validator
RangePropertiesTriggerUnchecked ==
    <<[name |-> "current_range", set_command |-> current_range_set,
       validator |-> "truncated_range", lo |-> CurrentRangeMin, hi |-> CurrentRangeMax],
      [name |-> "compliance_voltage", set_command |-> "CURRent:COMPliance %g",
       validator |-> "truncated_range", lo |-> 1, hi |-> 1050],
      [name |-> "trigger_count", set_command |-> ":TRIG:COUN %d",
       validator |-> "none", lo |-> 1, hi |-> 2500],
      [name |-> "trigger_delay", set_command |-> ":TRIG:SEQ:DEL %g",
       validator |-> "truncated_range", lo |-> 0, hi |-> 9999999]>>

\* current_range, compliance_voltage, trigger_count, trigger_delay as declared
\* with Instrument.control: set command, validator, values
RangeProperties ==
    <<[name |-> "current_range", set_command |-> current_range_set,
       validator |-> "truncated_range", lo |-> CurrentRangeMin, hi |-> CurrentRangeMax],
      [name |-> "compliance_voltage", set_command |-> "CURRent:COMPliance %g",
       validator |-> "truncated_range", lo |-> 1, hi |-> 1050],
      [name |-> "trigger_count", set_command |-> ":TRIG:COUN %d",
       validator |-> "truncated_range", lo |-> 1, hi |-> 2500],
      [name |-> "trigger_delay", set_command |-> ":TRIG:SEQ:DEL %g",
       validator |-> "truncated_range", lo |-> 0, hi |-> 9999999]>>

\* Instrument.control's setter on a declared property: the validator (the
\* identity when none is declared) applied to the value, then the write
PropertySet(prop, value) ==
    IF prop.validator = "truncated_range"
      THEN ControlSet("source", prop.set_command, value, prop.lo, prop.hi)
      ELSE Write("source", prop.set_command, value)

\* The values assigned: around and at both bounds, and in between
PropInputs(prop) ==
    {prop.lo - 1, prop.lo, prop.lo + 1, prop.hi, prop.hi + 1}

InitProps ==
    /\ SweepIdle
    /\ CvIdle
    /\ log = <<>> /\ lastOp = "none"
    /\ facade = [ops |-> 0, prop |-> 0, arg |-> 0, raised |-> ""]

PropAssign ==
    /\ facade.ops < MaxPropOps
    /\ \E p \in 1..Len(RangeProperties) : \E v \in PropInputs(RangeProperties[p]) :
         /\ log' = Append(log, PropertySet(RangeProperties[p], v))
         /\ facade' = [ops |-> facade.ops + 1, prop |-> p, arg |-> v, raised |-> ""]
    /\ lastOp' = "set"
    /\ UNCHANGED <<sweepVars, cvVars>>

NextProps == PropAssign

SpecProps == InitProps /\ [][NextProps]_vars

(***************************************************************************)
(* Properties.                                                             *)
(***************************************************************************)
SetPointPositions == {k \in 1..Len(log) : IsSetPoint(log[k])}

MeasurePositions == {k \in 1..Len(log) : IsMeasure(log[k])}

PositionsOf(e) == {k \in 1..Len(log) : log[k] = e}

\* C1: once IV.shutdown() has run after execute() (completed, cancelled or
\* failed), an OUTPUT OFF command has been written to the source after the
\* last set-point command, and the last set-point commanded is zero.
C1_ShutdownDisablesOutput ==
    pc = "done" =>
        /\ \E k \in 1..Len(log) :
              /\ log[k] = Write("source", "OUTPUT OFF", 0)
              /\ \A j \in SetPointPositions : j < k
        /\ \A k \in SetPointPositions :
              (\A j \in SetPointPositions : j <= k) => log[k].arg = 0

\* C2 (as stated): if the stop flag became set after the k-th result record
\* was emitted (1 <= k < waveform length), no set-point command and no
\* measurement is issued after that moment, and shutdown runs exactly once.
C2_NoCommandAfterStop ==
    /\ (stopMark.set /\ stopMark.nresults >= 1 /\ stopMark.nresults < Len(currents))
          => (NumSetPoints = stopMark.nset /\ NumMeasures = stopMark.nmeas)
    /\ shutdownCalls <= 1
    /\ (pc = "done" => shutdownCalls = 1)

\* C2 (amended): if the stop flag became set after the k-th result record was
\* emitted and before the stop check that ends iteration k, no further
\* set-point command and no further measurement is issued; if it became set
\* later, at most one more of each is issued; shutdown runs exactly once.
C2_StopHaltsSweep ==
    /\ (stopMark.set /\ stopMark.nresults >= 1 /\ stopMark.nresults < Len(currents)
            /\ stopMark.pc \in {"emit_progress", "should_stop"})
          => (NumSetPoints = stopMark.nset /\ NumMeasures = stopMark.nmeas)
    /\ (stopMark.set /\ stopMark.nresults >= 1 /\ stopMark.nresults < Len(currents))
          => (NumSetPoints <= stopMark.nset + 1 /\ NumMeasures <= stopMark.nmeas + 1)
    /\ shutdownCalls <= 1
    /\ (pc = "done" => shutdownCalls = 1)

\* C2 witness: the flag was set right after the 2nd record of a longer
\* waveform, the sweep was cancelled and shut down.
C2_Witness ==
    /\ stopMark.set /\ stopMark.nresults = 2 /\ stopMark.pc = "emit_progress"
    /\ Len(currents) > 2
    /\ outcome = "cancelled" /\ pc = "done" /\ shutdownCalls = 1
    /\ NumSetPoints = 2

\* C3: every measurement is the m-th measurement for some m, and it directly
\* follows (within measure_voltage) the configured delay, which directly
\* follows the m-th set-point command, carrying the m-th waveform value; so
\* no measurement lies between a set-point and the end of its delay and none
\* precedes its set-point.
C3_MeasureAfterSetAndDelay ==
    \A k \in MeasurePositions :
        LET m == Cardinality({j \in MeasurePositions : j <= k})
        IN  /\ Cardinality({j \in SetPointPositions : j <= k}) = m
            /\ k > 3
            /\ log[k - 1] = Write("meter", "INITIATE:CONT OFF", 0)
            /\ log[k - 2] = Sleep(params.delay)
            /\ log[k - 3] = Write("source", current_set, currents[m])

\* C3 witness: the third point of a sweep has been measured.
C3_Witness == NumMeasures = 3 /\ NumSetPoints = 3 /\ pc = "divide"

\* C4: after startup() the source has been written, in this order, a
\* current-range set command carrying the configured maximum current, a
\* compliance-voltage set command, *RST, *CLS and OUTPUT ON, followed by the
\* settle sleep, all before the first set-point command or measurement.
C4_StartupCommandOrder ==
    pc # "idle" =>
        \E a \in PositionsOf(Write("source", current_range_set,
                                   NanoPerMicro * params.current_range)) :
        \E b \in PositionsOf(Write("source", "CURRent:COMPliance %g", ComplianceV)) :
        \E c \in PositionsOf(Write("source", "*RST", 0)) :
        \E d \in PositionsOf(Write("source", "*CLS", 0)) :
        \E e \in PositionsOf(Write("source", "OUTPUT ON", 0)) :
        \E f \in PositionsOf(Sleep(SettleMs)) :
            /\ a < b /\ b < c /\ c < d /\ d < e /\ e < f
            /\ \A k \in SetPointPositions \cup MeasurePositions : f < k

\* C5: a sweep that completed emitted, for every waveform point in order, one
\* results record directly followed by one progress record, and nothing
\* else; the division by a zero current never ends execute().
C5_OneRecordPerPoint ==
    /\ outcome = "completed" =>
          /\ Len(emitted) = 2 * Len(currents)
          /\ \A j \in 1..Len(currents) :
                /\ emitted[2 * j - 1] = ResultsRecord(j - 1, currents[j])
                /\ emitted[2 * j].kind = "progress"
                /\ emitted[2 * j].index = j - 1
    /\ error # "ZeroDivisionError"

\* C5 witness: a completed sweep whose first and last records are the
\* zero-current points, the last resistance being nan or infinite.
C5_Witness ==
    /\ outcome = "completed"
    /\ Len(currents) >= 9
    /\ emitted[1].kind = "results" /\ emitted[1].current = 0
    /\ emitted[Len(emitted) - 1].kind = "results"
    /\ emitted[Len(emitted) - 1].current = 0
    /\ resistance.kind = "inf"

\* C6: the last progress value of a completed sweep is 100.
C6_FinalProgressIs100 ==
    outcome = "completed" =>
        /\ Len(emitted) > 0
        /\ emitted[Len(emitted)].kind = "progress"
        /\ emitted[Len(emitted)].num = 100 * emitted[Len(emitted)].den

ValidCVArgs == 0 < cvArgs[2] /\ cvArgs[2] <= cvArgs[1]

\* C7: for 0 < stepA <= rangeA the waveform starts with 0 and ends with 0.
C7_StartsAndEndsAtZero ==
    (cvPc = "returned" /\ ValidCVArgs) =>
        /\ Len(cvResult) >= 2
        /\ cvResult[1] = 0
        /\ cvResult[Len(cvResult)] = 0

\* C7 witness: the waveform of a step that does not divide the range.
C7_Witness ==
    /\ cvPc = "returned" /\ cvArgs = <<3, 2>>
    /\ cvResult = <<0, 2, 3, 1, -1, -3, -1, 0>>

\* C8: for 0 < stepA <= rangeA every positive value of the waveform has its
\* negative in the waveform.
C8_Symmetric ==
    (cvPc = "returned" /\ ValidCVArgs) =>
        \A k \in 1..Len(cvResult) :
            cvResult[k] > 0 => \E j \in 1..Len(cvResult) : cvResult[j] = -cvResult[k]

C11_BadChannelIsSignalled ==
    (lastOp = "set_channel" /\ facade.arg \notin {0, 1, 2}) =>
        /\ facade.raised # ""
        /\ Len(log) = facade.len0
        /\ meterChannel = facade.channel0

\* a reply is mantissa-E-exponent: exactly one exponent marker between two numbers
WellFormed(reply) ==
    /\ Len(SplitE(reply)) = 2
    /\ IsNumber(SplitE(reply)[1])
    /\ IsNumber(SplitE(reply)[2])

\* C12: measure_voltage(iterations = n) raises ProtocolError and returns no
\* value whenever one of its n replies is not mantissa-E-exponent, and it
\* returns a value only when all n replies are.
C12_MalformedReplyIsProtocolError ==
    lastOp = "measure_voltage" =>
        /\ (\E k \in 1..Len(facade.arg) : ~WellFormed(facade.arg[k]))
              => (facade.raised = "ProtocolError" /\ ~facade.returned)
        /\ facade.returned => \A k \in 1..Len(facade.arg) : WellFormed(facade.arg[k])

\* C17: after any sequence of set_channel(n), setup() and reset(), the
\* mirrored channel is the channel selected on the instrument.
C17_MirrorIsInstrumentChannel ==
    lastOp # "none" => meterChannel = InstrumentChannel(log)

\* C13: check_errors() ends as soon as code 0 is reported and ends once the
\* timeout has elapsed even if every poll reports a non-zero code: an
\* iteration runs only on a non-zero code, no iteration starts once the
\* timeout has been detected, none starts later than the timeout plus one
\* poll after the call, and a non-zero code is never raised.
C13_CheckErrorsEnds ==
    /\ facade.pc = "body" => facade.code # 0
    /\ facade.pc = "body" => ~facade.warned
    /\ facade.pc = "body" => facade.t - facade.start <= TimeoutS + MaxPollS
    /\ facade.raised = ""

Abs(x) == IF x < 0 THEN -x ELSE x

\* the module names execute() reads carry the configured parameters
SameConfig ==
    /\ globals.defined
    /\ globals.current_range = params.current_range
    /\ globals.current_step = params.current_step

InvalidConfig ==
    \/ params.current_step <= 0
    \/ params.current_step > NanoPerMicro * params.current_range

\* C14: a sweep configured with a zero or negative step, or a step larger
\* than the maximum current, ends in ConfigurationError with no set-point
\* commanded (the module names being bound to the configured values).
C14_InvalidConfigRejected ==
    (SameConfig /\ InvalidConfig /\ pc \notin {"idle", "execute"}) =>
        /\ error = "ConfigurationError"
        /\ NumSetPoints = 0

\* C18: when a voltage has been measured, the source still has the range
\* startup() asked for (the configured maximum, auto-range off) and the
\* compliance voltage assigned in startup().
C18_StartupConfigInForce ==
    NumMeasures >= 1 =>
        /\ SourceSetting(log, current_range_set)
              = [set |-> TRUE, val |-> NanoPerMicro * params.current_range]
        /\ SourceSetting(log, "CURRent:COMPliance %g")
              = [set |-> TRUE, val |-> ComplianceV]
        /\ ~AutoRangeOn(log)

\* C19: for a configuration with 0 < current_step <= max_current, every
\* set-point commanded has magnitude at most the configured maximum current.
C19_SetPointsWithinMaximum ==
    ~InvalidConfig =>
        \A k \in SetPointPositions :
            Abs(log[k].arg) <= NanoPerMicro * params.current_range

NumProgress == Cardinality({k \in 1..Len(emitted) : emitted[k].kind = "progress"})

RECURSIVE SetPointsSince(_, _)
SetPointsSince(cmds, n) ==
    IF Len(cmds) <= n THEN <<>>
    ELSE SetPointsSince(SubSeq(cmds, 1, Len(cmds) - 1), n)
           \o (IF IsSetPoint(cmds[Len(cmds)]) THEN <<cmds[Len(cmds)].arg>> ELSE <<>>)

\* C15: ramp_to_current(target, steps) with steps >= 2, called after a
\* current was commanded, writes exactly steps set-points, the first the
\* last commanded current, the last the target, monotonic in between.
C15_RampFromLastCommanded ==
    (lastOp = "ramp_to_current" /\ facade.steps >= 2 /\ facade.last0.has) =>
        LET w == SetPointsSince(log, facade.len0)
        IN  /\ Len(w) = facade.steps
            /\ w[1] = facade.last0.val
            /\ w[Len(w)] = facade.target
            /\ \/ \A k \in 1..(Len(w) - 1) : w[k] <= w[k + 1]
               \/ \A k \in 1..(Len(w) - 1) : w[k] >= w[k + 1]

\* the declared bounds of the four range-validated properties, by set command
DeclaredBounds ==
    {<<current_range_set, CurrentRangeMin, CurrentRangeMax>>,
     <<"CURRent:COMPliance %g", 1, 1050>>,
     <<":TRIG:COUN %d", 1, 2500>>,
     <<":TRIG:SEQ:DEL %g", 0, 9999999>>}

====
